---- MODULE Spec2Model ----
(***************************************************************************)
(* A model of tilecsp/cspbase.py: the classes Variable, Constraint and CSP. *)
(* Objects are records held in the functions V (Variable objects),          *)
(* C (Constraint objects) and the record csp (the CSP object).  Each        *)
(* method is an operator from the object's record (and the arguments) to    *)
(* the record after the call together with the call's outcome; each action  *)
(* is one call of one method by a client.  call records the last call,      *)
(* hist what the calls so far were given, bt the state of a search.         *)
(*                                                                          *)
(* Outcomes of a call:                                                      *)
(*   "ok"          the call returned normally and did its work              *)
(*   "printed"     the call wrote a message with print() and returned       *)
(*                 normally (return value None, no exception)               *)
(*   "ValueError"  list.index raised ValueError out of the call             *)
(*   "IndexError"  an index out of range raised IndexError out of the call  *)
(***************************************************************************)
EXTENDS Integers, Sequences, FiniteSets, TLC

VARIABLES V, C, csp, call, hist, bt

vars == <<V, C, csp, call, hist, bt>>

----------------------------------------------------------------------------
(* Bounds of the model *)

\* longest permanent domain of a Variable in the Variable specification
MaxDomLen == 3

\* Python's None, the value assignedValue holds while unassigned
None == -1

\* domain values: None itself, the falsy value 0, and 1
Values == {None, 0, 1}

\* all sequences over S of length at most n
BSeq(S, n) == UNION {[1..k -> S] : k \in 0..n}

\* the elements of a sequence
Range(s) == {s[i] : i \in 1..Len(s)}

\* outcomes that reach the caller as a raised exception
Raised == {"ValueError", "IndexError"}

----------------------------------------------------------------------------
(* class Variable *)

\* Variable.__init__(name, domain)
NewVariable(domain) ==
    [dom |-> domain,
     curdom |-> [i \in 1..Len(domain) |-> TRUE],
     assignedValue |-> None]

\* value in self.dom
InDom(self, value) == \E i \in 1..Len(self.dom) : self.dom[i] = value

\* self.dom.index(value): the first index holding value (called only when
\* value is in self.dom; the callers model the ValueError otherwise)
value_index(self, value) ==
    CHOOSE i \in 1..Len(self.dom) :
        /\ self.dom[i] = value
        /\ \A j \in 1..(i-1) : self.dom[j] # value

domain_size(self) == Len(self.dom)

is_assigned(self) == self.assignedValue # None

get_assigned_value(self) == self.assignedValue

\* the values of dom whose flag is set, in domain order
cur_domain(self) ==
    IF is_assigned(self)
    THEN <<get_assigned_value(self)>>
    ELSE LET vals[i \in 0..Len(self.dom)] ==
                 IF i = 0 THEN <<>>
                 ELSE IF self.curdom[i] THEN Append(vals[i-1], self.dom[i])
                      ELSE vals[i-1]
         IN  vals[Len(self.dom)]

in_cur_domain(self, value) ==
    IF ~InDom(self, value) THEN FALSE
    ELSE IF is_assigned(self) THEN value = get_assigned_value(self)
         ELSE self.curdom[value_index(self, value)]

cur_domain_size(self) ==
    IF is_assigned(self) THEN 1
    ELSE Cardinality({i \in 1..Len(self.curdom) : self.curdom[i]})

\* Each mutating method gives [self |-> the object after the call,
\*                             outcome |-> how the call ended]

add_domain_values(self, values) ==
    [self |-> [self EXCEPT !.dom = self.dom \o values,
                           !.curdom = self.curdom \o [i \in 1..Len(values) |-> TRUE]],
     outcome |-> "ok"]

\* a prune_value that ignores a value that is not in the domain
prune_value_quiet(self, value) ==
    IF ~InDom(self, value)
    THEN [self |-> self, outcome |-> "ok"]
    ELSE [self |-> [self EXCEPT !.curdom[value_index(self, value)] = FALSE],
          outcome |-> "ok"]

prune_value(self, value) ==
    IF ~InDom(self, value)
    THEN [self |-> self, outcome |-> "ValueError"]
    ELSE [self |-> [self EXCEPT !.curdom[value_index(self, value)] = FALSE],
          outcome |-> "ok"]

\* an unprune_value that sets every flag of the mask
unprune_value_all(self, value) ==
    IF ~InDom(self, value)
    THEN [self |-> self, outcome |-> "ValueError"]
    ELSE [self |-> [self EXCEPT !.curdom = [i \in 1..Len(self.curdom) |-> TRUE]],
          outcome |-> "ok"]

unprune_value(self, value) ==
    IF ~InDom(self, value)
    THEN [self |-> self, outcome |-> "ValueError"]
    ELSE [self |-> [self EXCEPT !.curdom[value_index(self, value)] = TRUE],
          outcome |-> "ok"]

\* restore_curdom whose loop stops one flag short
restore_curdom_short(self) ==
    [self |-> [self EXCEPT !.curdom = [i \in 1..Len(self.curdom) |->
                                          IF i < Len(self.curdom) THEN TRUE ELSE @[i]]],
     outcome |-> "ok"]

restore_curdom(self) ==
    [self |-> [self EXCEPT !.curdom = [i \in 1..Len(self.curdom) |-> TRUE]],
     outcome |-> "ok"]

\* an assign that also clears the flags of all other values
assign_pruning(self, value) ==
    IF is_assigned(self) \/ ~in_cur_domain(self, value)
    THEN [self |-> self, outcome |-> "printed"]
    ELSE [self |-> [self EXCEPT
                      !.assignedValue = value,
                      !.curdom = [i \in 1..Len(self.curdom) |-> self.dom[i] = value]],
          outcome |-> "ok"]

assign(self, value) ==
    IF is_assigned(self) \/ ~in_cur_domain(self, value)
    THEN [self |-> self, outcome |-> "printed"]
    ELSE [self |-> [self EXCEPT !.assignedValue = value], outcome |-> "ok"]

unassign(self) ==
    IF ~is_assigned(self)
    THEN [self |-> self, outcome |-> "printed"]
    ELSE [self |-> [self EXCEPT !.assignedValue = None], outcome |-> "ok"]

----------------------------------------------------------------------------
(* The Variable specification: a client calls the methods of one Variable   *)
(* object, x, in any order.  call records the last call.                    *)

NoCall == [op |-> "init", arg |-> None, outcome |-> "ok"]

InitVar ==
    /\ \E domain \in BSeq(Values, MaxDomLen) : V = [o \in {"x"} |-> NewVariable(domain)]
    /\ C = <<>>
    /\ csp = <<>>
    /\ call = NoCall
    /\ hist = <<>>
    /\ bt = <<>>

\* one call of a Variable method with result r
VarCall(o, name, a, r) ==
    /\ V' = [V EXCEPT ![o] = r.self]
    /\ call' = [op |-> name, arg |-> a, outcome |-> r.outcome]
    /\ UNCHANGED <<C, csp, hist, bt>>

AddDomainValues(o) ==
    \E values \in BSeq(Values, 2) :
        /\ Len(V[o].dom) + Len(values) <= MaxDomLen
        /\ VarCall(o, "add_domain_values", None, add_domain_values(V[o], values))

PruneValue(o) ==
    \E value \in Values : VarCall(o, "prune_value", value, prune_value(V[o], value))

UnpruneValue(o) ==
    \E value \in Values : VarCall(o, "unprune_value", value, unprune_value(V[o], value))

RestoreCurdom(o) == VarCall(o, "restore_curdom", None, restore_curdom(V[o]))

Assign(o) ==
    \E value \in Values : VarCall(o, "assign", value, assign(V[o], value))

Unassign(o) == VarCall(o, "unassign", None, unassign(V[o]))

NextVar ==
    \/ AddDomainValues("x")
    \/ PruneValue("x")
    \/ UnpruneValue("x")
    \/ RestoreCurdom("x")
    \/ Assign("x")
    \/ Unassign("x")

SpecVar == InitVar /\ [][NextVar]_vars

----------------------------------------------------------------------------
(* class Constraint *)

\* Constraint.__init__(name, scope)
NewConstraint(scope) ==
    [scope |-> scope, sat_tuples |-> {}, sup_tuples |-> <<>>]

\* a table insertion that happens only into an empty table
sat_insert_first(table, t) == IF table = {} THEN {t} ELSE table

\* if not t in self.sat_tuples: self.sat_tuples[t] = True
sat_insert(table, t) == table \cup {t}

\* a support-list update that assigns the list [t] instead of appending
sup_replace(list, t) == <<t>>

\* self.sup_tuples[(var,val)].append(t)
sup_append(list, t) == Append(list, t)

\* the loop over the positions of t, from position i on: t is put in the
\* support list of (scope[i], t[i]); self.scope[i] raises IndexError when t
\* is longer than the scope
RECURSIVE add_supports(_, _, _)
add_supports(self, t, i) ==
    IF i > Len(t) THEN [self |-> self, outcome |-> "ok"]
    ELSE IF i > Len(self.scope) THEN [self |-> self, outcome |-> "IndexError"]
    ELSE LET key == <<self.scope[i], t[i]>>
             old == IF key \in DOMAIN self.sup_tuples
                    THEN self.sup_tuples[key] ELSE <<>>
             new == [k \in DOMAIN self.sup_tuples \cup {key} |->
                        IF k = key THEN sup_append(old, t) ELSE self.sup_tuples[k]]
         IN  add_supports([self EXCEPT !.sup_tuples = new], t, i + 1)

\* the loop over tuples, from the k-th on
RECURSIVE add_from(_, _, _)
add_from(self, tuples, k) ==
    IF k > Len(tuples) THEN [self |-> self, outcome |-> "ok"]
    ELSE LET t == tuples[k]
             r == add_supports([self EXCEPT !.sat_tuples = sat_insert(@, t)], t, 1)
         IN  IF r.outcome # "ok" THEN r ELSE add_from(r.self, tuples, k + 1)

add_satisfying_tuples(self, tuples) == add_from(self, tuples, 1)

get_scope(self) == self.scope

check(self, vals) == vals \in self.sat_tuples

\* The two queries below give [outcome |-> "ok", value |-> the boolean
\* returned] or [outcome |-> "IndexError", value |-> FALSE] when t[i] raises.

\* the loop over the scope, from position i on
RECURSIVE valid_from(_, _, _)
valid_from(self, t, i) ==
    IF i > Len(self.scope) THEN [outcome |-> "ok", value |-> TRUE]
    ELSE IF i > Len(t) THEN [outcome |-> "IndexError", value |-> FALSE]
    ELSE IF ~in_cur_domain(V[self.scope[i]], t[i])
         THEN [outcome |-> "ok", value |-> FALSE]
         ELSE valid_from(self, t, i + 1)

tuple_is_valid(self, t) == valid_from(self, t, 1)

\* the loop over the support list ts, from its k-th tuple on
RECURSIVE support_from(_, _, _)
support_from(self, ts, k) ==
    IF k > Len(ts) THEN [outcome |-> "ok", value |-> FALSE]
    ELSE LET r == tuple_is_valid(self, ts[k])
         IN  IF r.outcome # "ok" THEN r
             ELSE IF r.value THEN [outcome |-> "ok", value |-> TRUE]
                  ELSE support_from(self, ts, k + 1)

has_support(self, var, val) ==
    IF <<var, val>> \in DOMAIN self.sup_tuples
    THEN support_from(self, self.sup_tuples[<<var, val>>], 1)
    ELSE [outcome |-> "ok", value |-> FALSE]

----------------------------------------------------------------------------
(* The Constraint specification: one Constraint c over the Variables x, y   *)
(* (scope [x, y]); a client adds satisfying tuples to c and prunes,         *)
(* unprunes, assigns and unassigns x and y, in any order.  call records of  *)
(* a call of add_satisfying_tuples whether some tuple given had a length    *)
(* other than the scope's (mismatch) and whether every tuple given was in   *)
(* the table already (again).                                               *)

\* most tuples handed to add_satisfying_tuples, over all calls
MaxTuples == 2

\* values of the tuples and of the domains of x and y
TupleValues == {0, 1}

\* tuples handed to add_satisfying_tuples: every tuple of the scope's length
\* (2), a shorter one and a longer one
AllTuples == [1..2 -> TupleValues] \cup {<<0>>, <<1, 1, 1>>}

\* domains x is constructed with: two distinct values, or one value given
\* twice; y is constructed with two distinct values
ConDomains == {<<0, 1>>, <<1, 1>>}

InitCon ==
    /\ \E dx \in ConDomains :
          V = [o \in {"x", "y"} |->
                  IF o = "x" THEN NewVariable(dx) ELSE NewVariable(<<0, 1>>)]
    /\ C = [c \in {"c"} |-> NewConstraint(<<"x", "y">>)]
    /\ csp = <<>>
    /\ call = NoCall
    /\ hist = [passed |-> {}, reached |-> {}, n |-> 0]
    /\ bt = <<>>

\* the tuples of a call that its loop reaches: all of them, or those up to
\* the first one longer than the scope
Reached(self, tuples) ==
    {tuples[k] : k \in {k \in 1..Len(tuples) :
                          \A j \in 1..(k-1) : Len(tuples[j]) <= Len(self.scope)}}

AddSatisfyingTuples(c) ==
    \E tuples \in BSeq(AllTuples, MaxTuples - hist.n) :
        /\ LET r == add_satisfying_tuples(C[c], tuples)
           IN  /\ C' = [C EXCEPT ![c] = r.self]
               /\ call' = [op |-> "add_satisfying_tuples",
                           mismatch |-> \E k \in 1..Len(tuples) :
                                           Len(tuples[k]) # Len(C[c].scope),
                           again |-> /\ tuples # <<>>
                                     /\ Range(tuples) \subseteq C[c].sat_tuples,
                           outcome |-> r.outcome]
               /\ hist' = [passed |-> hist.passed \cup Range(tuples),
                           reached |-> hist.reached \cup Reached(C[c], tuples),
                           n |-> hist.n + Len(tuples)]
        /\ UNCHANGED <<V, csp, bt>>

\* a call of a Variable method on a scope variable
ScopeVarCall(o, r) ==
    /\ V' = [V EXCEPT ![o] = r.self]
    /\ call' = [op |-> "variable"]
    /\ UNCHANGED <<C, csp, hist, bt>>

NextCon ==
    \/ AddSatisfyingTuples("c")
    \/ \E o \in {"x", "y"}, value \in TupleValues :
          \/ ScopeVarCall(o, prune_value(V[o], value))
          \/ ScopeVarCall(o, unprune_value(V[o], value))
          \/ ScopeVarCall(o, assign(V[o], value))
    \/ \E o \in {"x", "y"} : ScopeVarCall(o, unassign(V[o]))

SpecCon == InitCon /\ [][NextCon]_vars

----------------------------------------------------------------------------
(* class CSP *)

\* type(o) is Variable, type(o) is Constraint
IsVariable(o) == o \in DOMAIN V
IsConstraint(o) == o \in DOMAIN C

\* v in self.vars_to_cons
Registered(self, v) == v \in DOMAIN self.vars_to_cons

\* add_var without the test `v in self.vars_to_cons`
add_var_again(self, v) ==
    IF ~IsVariable(v) THEN [self |-> self, outcome |-> "printed"]
    ELSE [self |-> [self EXCEPT
                      !.vars = Append(@, v),
                      !.vars_to_cons = [w \in DOMAIN @ \cup {v} |->
                                           IF w = v THEN <<>> ELSE @[w]]],
          outcome |-> "ok"]

add_var(self, v) ==
    IF ~IsVariable(v) THEN [self |-> self, outcome |-> "printed"]
    ELSE IF Registered(self, v) THEN [self |-> self, outcome |-> "printed"]
    ELSE [self |-> [self EXCEPT
                      !.vars = Append(@, v),
                      !.vars_to_cons = [w \in DOMAIN @ \cup {v} |->
                                           IF w = v THEN <<>> ELSE @[w]]],
          outcome |-> "ok"]

\* the loop of CSP.__init__ over vars, from the k-th on
RECURSIVE add_vars_from(_, _, _)
add_vars_from(self, vs, k) ==
    IF k > Len(vs) THEN self
    ELSE add_vars_from(add_var(self, vs[k]).self, vs, k + 1)

\* CSP.__init__(name, vars)
NewCSP(vs) ==
    add_vars_from([vars |-> <<>>, cons |-> <<>>, vars_to_cons |-> <<>>], vs, 1)

\* the loop of add_constraint over c's scope, from position i on, and the
\* append to self.cons after it
RECURSIVE index_from(_, _, _)
index_from(self, c, i) ==
    IF i > Len(C[c].scope)
    THEN [self |-> [self EXCEPT !.cons = Append(@, c)], outcome |-> "ok"]
    ELSE IF ~Registered(self, C[c].scope[i])
         THEN [self |-> self, outcome |-> "printed"]
         ELSE index_from([self EXCEPT !.vars_to_cons[C[c].scope[i]] = Append(@, c)],
                         c, i + 1)

add_constraint(self, c) ==
    IF ~IsConstraint(c) THEN [self |-> self, outcome |-> "printed"]
    ELSE index_from(self, c, 1)

get_all_cons(self) == self.cons

get_cons_with_var(self, var) == self.vars_to_cons[var]

get_all_vars(self) == self.vars

----------------------------------------------------------------------------
(* The CSP specification: Variables x, y and Constraints c1, c2 with any    *)
(* scopes over them; a client constructs a CSP and calls add_var and        *)
(* add_constraint with any of these objects, in any order.                  *)

\* most calls of add_constraint
MaxConCalls == 3

InitCSP ==
    /\ V = [o \in {"x", "y"} |-> NewVariable(<<0, 1>>)]
    /\ \E s1, s2 \in BSeq({"x", "y"}, 2) :
          C = [c \in {"c1", "c2"} |->
                  IF c = "c1" THEN NewConstraint(s1) ELSE NewConstraint(s2)]
    /\ \E vs \in BSeq({"x", "y"}, 2) : csp = NewCSP(vs)
    /\ call = NoCall
    /\ hist = [n |-> 0]
    /\ bt = <<>>

AddVar ==
    \E v \in {"x", "y", "c1"} :
        LET r == add_var(csp, v)
        IN  /\ csp' = r.self
            /\ call' = [op |-> "add_var", arg |-> v, outcome |-> r.outcome]
            /\ UNCHANGED <<V, C, hist, bt>>

AddConstraint ==
    \E c \in {"c1", "c2", "x"} :
        /\ hist.n < MaxConCalls
        /\ LET r == add_constraint(csp, c)
           IN  /\ csp' = r.self
               /\ call' = [op |-> "add_constraint", arg |-> c, outcome |-> r.outcome]
               /\ hist' = [n |-> hist.n + 1]
               /\ UNCHANGED <<V, C, bt>>

NextCSP == AddVar \/ AddConstraint

SpecCSP == InitCSP /\ [][NextCSP]_vars

----------------------------------------------------------------------------
(* class Constraint: the queries the propagators use *)

get_unasgn_vars(self) == SelectSeq(self.scope, LAMBDA v : ~is_assigned(V[v]))

get_n_unasgn(self) == Len(get_unasgn_vars(self))

----------------------------------------------------------------------------
(* The propagators and the search driver.  cspbase.py announces the         *)
(* backtracking routine in its module docstring and names bt_search in the  *)
(* comments of assign and unassign, but holds no code for it; the           *)
(* definitions of this section follow spec.md, sections 4.4 and 4.5, and    *)
(* work on the objects only through the methods modelled above.             *)
(*                                                                          *)
(* bt is the state of one solve: pc the driver's position, prop the         *)
(* propagator variant, policy the ordering policy, stack the frames of the  *)
(* recursive calls in progress                                              *)
(* (deepest last), p the state of the propagator call in progress or just   *)
(* returned.  A frame holds the variable selected by its call, the values   *)
(* of its current domain not tried yet, and the pairs the propagator call   *)
(* of the value on trial reported.  Three fields are history only: V0, the  *)
(* Variable objects before solve; entry in a frame, the Variable objects at *)
(* the entry of its call; entry in p, the Variable objects when the         *)
(* propagator was invoked.                                                  *)

\* the propagator variants
Propagators == {"none", "fc", "gac"}

\* every variable of the CSP is assigned
all_assigned == \A v \in Range(get_all_vars(csp)) : is_assigned(V[v])

\* the ordering policies: the default one, and plain registration order
Policies == {"mrv", "first"}

\* the variable a call selects.  Policy "mrv" (the default): the unassigned
\* variable of least cur_domain_size(), the first such in registration
\* order; policy "first": the first unassigned variable in registration order
select_variable(policy) ==
    LET un == SelectSeq(get_all_vars(csp), LAMBDA v : ~is_assigned(V[v]))
        k == CHOOSE i \in 1..Len(un) :
                /\ \A j \in 1..Len(un) :
                      cur_domain_size(V[un[i]]) <= cur_domain_size(V[un[j]])
                /\ \A j \in 1..(i-1) :
                      cur_domain_size(V[un[j]]) > cur_domain_size(V[un[i]])
    IN  IF policy = "mrv" THEN un[k] ELSE un[1]

\* the Variable objects H after unprune_value of the pairs ps, from the k-th
RECURSIVE unprune_all(_, _, _)
unprune_all(H, ps, k) ==
    IF k > Len(ps) THEN H
    ELSE unprune_all([H EXCEPT ![ps[k][1]] = unprune_value(@, ps[k][2]).self],
                     ps, k + 1)

\* no propagator call in progress
NoProp ==
    [started |-> FALSE, entry |-> <<>>, w |-> "", queue |-> <<>>, cons |-> <<>>,
     c |-> "", us |-> <<>>, u |-> "", vals |-> <<>>, removed |-> FALSE,
     prunings |-> <<>>, ok |-> TRUE]

\* the variables of constraint c a propagator works on: forward checking,
\* the one unassigned variable of a constraint that has exactly one; GAC,
\* every unassigned variable other than the one popped from the queue
scope_work(prop, w, c) ==
    IF prop = "fc"
    THEN IF get_n_unasgn(C[c]) = 1 THEN get_unasgn_vars(C[c]) ELSE <<>>
    ELSE SelectSeq(get_unasgn_vars(C[c]), LAMBDA v : v # w)

\* the propagator's loops up to the next variable whose values it goes
\* through: the next variable of the constraint at hand, else of the next
\* constraint, else of the constraints of the next variable of the queue;
\* with nothing left the propagator is through (u = "")
RECURSIVE next_item(_, _)
next_item(prop, p) ==
    IF p.us # <<>>
    THEN [p EXCEPT !.u = Head(p.us), !.us = Tail(p.us),
                   !.vals = cur_domain(V[Head(p.us)]), !.removed = FALSE]
    ELSE IF p.cons # <<>>
    THEN next_item(prop, [p EXCEPT !.c = Head(p.cons), !.cons = Tail(p.cons),
                                   !.us = scope_work(prop, p.w, Head(p.cons))])
    ELSE IF p.queue # <<>>
    THEN next_item(prop, [p EXCEPT !.w = Head(p.queue), !.queue = Tail(p.queue),
                                   !.cons = get_cons_with_var(csp, Head(p.queue))])
    ELSE [p EXCEPT !.u = ""]

\* the top frame of the stack
top == bt.stack[Len(bt.stack)]

\* the propagator returns: to the driver, with the flag ok
prop_return(p, ok) ==
    bt' = [bt EXCEPT !.pc = "propagated", !.p = [p EXCEPT !.ok = ok, !.u = ""]]

\* the propagator goes on with item p, or returns success when p has none
prop_goto(p) ==
    IF p.u = "" THEN prop_return(p, TRUE)
    ELSE bt' = [bt EXCEPT !.p = p]

----------------------------------------------------------------------------
(* The search specification: a client builds Variables x, y, z, the         *)
(* Constraints cxy, cyz, cxz and cx with the tuples of an instance, and a   *)
(* CSP of some of them, and calls solve with one of the propagator variants *)
(* and one of the ordering policies.                                        *)

\* a set as a sequence, in some fixed order
RECURSIVE SeqOf(_)
SeqOf(S) ==
    IF S = {} THEN <<>>
    ELSE LET t == CHOOSE t \in S : TRUE IN <<t>> \o SeqOf(S \ {t})

\* the tuples of length n over the values of domain dom
TuplesOver(dom, n) == [1..n -> Range(dom)]

\* the not-equal table of scenarios 1 and 2
NotEqual(dom) == {t \in TuplesOver(dom, 2) : t[1] # t[2]}

\* the tables of a Constraint over two of the variables, domain [1, 2]
Tables == SUBSET TuplesOver(<<1, 2>>, 2)

\* the permanent domains the Variables are built with: x, y, z over [1, 2];
\* or one of them with no value (the constructor's default), or with a value
\* given twice
Domains ==
    {[o \in {"x", "y", "z"} |-> <<1, 2>>]}
    \cup {[o \in {"x", "y", "z"} |-> IF o = e THEN d ELSE <<1, 2>>] :
             e \in {"y", "z"}, d \in {<<>>, <<1, 1>>}}

\* the instances solved: the domains, tables and calls of the client.  The
\* client constructs the CSP with the variables vars, calls add_constraint
\* for the constraints early, add_var for the variables late, and
\* add_constraint for the constraints cons.
\*  - x, y, z over [1, 2] with any table for cxy and any for cyz, and a
\*    unary cx;
\*  - x, y, z over [1, 2] with any tables for cxy, cyz and cxz;
\*  - the same with the other domains, without cx;
\*  - the same over [1, 2] where the client adds cxy while only x is
\*    registered, and registers y and z afterwards;
\*  - x, z over [1, 2] and y over [1, 2, 3], a value no tuple has, with any
\*    tables for cxy and cyz;
\*  - scenario 1 (x, y over [1, 2, 3], not-equal) and scenario 2 (the same
\*    with x in {3}).
Instances ==
    {[doms |-> [o \in {"x", "y", "z"} |-> <<1, 2>>],
      vars |-> <<"x", "y", "z">>, early |-> <<>>, late |-> <<>>, cons |-> cs,
      txy |-> txy, tyz |-> tyz, txz |-> {}, tx |-> tx] :
        txy \in Tables, tyz \in Tables,
        cs \in {<<"cxy", "cyz", "cx">>}, tx \in {{}, {<<2>>}}}
    \cup
    {[doms |-> [o \in {"x", "y", "z"} |-> <<1, 2>>],
      vars |-> <<"x", "y", "z">>, early |-> <<>>, late |-> <<>>,
      cons |-> <<"cxy", "cyz", "cxz">>,
      txy |-> txy, tyz |-> tyz, txz |-> txz, tx |-> {}] :
        txy \in Tables, tyz \in Tables, txz \in Tables}
    \cup
    {[doms |-> doms,
      vars |-> <<"x", "y", "z">>, early |-> <<>>, late |-> <<>>,
      cons |-> <<"cxy", "cyz">>, txy |-> txy, tyz |-> tyz, txz |-> {}, tx |-> {}] :
        doms \in Domains, txy \in Tables, tyz \in Tables}
    \cup
    {[doms |-> [o \in {"x", "y", "z"} |-> <<1, 2>>],
      vars |-> <<"x">>, early |-> <<"cxy">>, late |-> <<"y", "z">>,
      cons |-> <<"cyz">>, txy |-> txy, tyz |-> tyz, txz |-> {}, tx |-> {}] :
        txy \in Tables, tyz \in Tables}
    \cup
    {[doms |-> [o \in {"x", "y", "z"} |-> IF o = "y" THEN <<1, 2, 3>> ELSE <<1, 2>>],
      vars |-> <<"x", "y", "z">>, early |-> <<>>, late |-> <<>>,
      cons |-> <<"cxy", "cyz">>, txy |-> txy, tyz |-> tyz, txz |-> {}, tx |-> {}] :
        txy \in Tables, tyz \in Tables}
    \cup
    {[doms |-> [o \in {"x", "y", "z"} |-> <<1, 2, 3>>],
      vars |-> <<"x", "y">>, early |-> <<>>, late |-> <<>>, cons |-> cs,
      txy |-> NotEqual(<<1, 2, 3>>), tyz |-> {}, txz |-> {}, tx |-> {<<3>>}] :
        cs \in {<<"cxy">>, <<"cxy", "cx">>}}

\* the calls of add_constraint of the client, from the k-th constraint on
RECURSIVE add_constraints_from(_, _, _)
add_constraints_from(self, cs, k) ==
    IF k > Len(cs) THEN self
    ELSE add_constraints_from(add_constraint(self, cs[k]).self, cs, k + 1)

\* deepest recursion the interpreter allows (Python's recursion limit);
\* a call beyond it raises RecursionError
RecursionLimit == 5

\* the objects after the client's calls for instance inst, before solve
BuildInstance(inst) ==
        /\ V = [o \in {"x", "y", "z"} |-> NewVariable(inst.doms[o])]
        /\ C = [c \in {"cxy", "cyz", "cxz", "cx"} |->
                  IF c = "cxy"
                  THEN add_satisfying_tuples(NewConstraint(<<"x", "y">>),
                                             SeqOf(inst.txy)).self
                  ELSE IF c = "cyz"
                  THEN add_satisfying_tuples(NewConstraint(<<"y", "z">>),
                                             SeqOf(inst.tyz)).self
                  ELSE IF c = "cxz"
                  THEN add_satisfying_tuples(NewConstraint(<<"x", "z">>),
                                             SeqOf(inst.txz)).self
                  ELSE add_satisfying_tuples(NewConstraint(<<"x">>),
                                             SeqOf(inst.tx)).self]
        /\ csp = add_constraints_from(
                    add_vars_from(
                      add_constraints_from(NewCSP(inst.vars), inst.early, 1),
                      inst.late, 1),
                    inst.cons, 1)
        /\ call = NoCall
        /\ hist = <<>>
        /\ bt = [pc |-> "built", prop |-> "none", policy |-> "mrv",
                 stack |-> <<>>, p |-> NoProp, V0 |-> V]

InitSearch == \E inst \in Instances : BuildInstance(inst)

\* solve(csp, prop, policy): the root call of the recursion
Solve ==
    /\ bt.pc = "built"
    /\ \E prop \in Propagators, policy \in Policies :
          bt' = [bt EXCEPT !.pc = "call", !.prop = prop, !.policy = policy,
                           !.V0 = V]
    /\ call' = [op |-> "solve"]
    /\ UNCHANGED <<V, C, csp, hist>>

\* steps 1 and 2: a recursive call begins; with every variable assigned it
\* is the Solution, else it selects a variable
BtCall ==
    /\ bt.pc = "call"
    /\ IF Len(bt.stack) >= RecursionLimit
       THEN bt' = [bt EXCEPT !.pc = "RecursionError"]
       ELSE IF all_assigned
       THEN bt' = [bt EXCEPT !.pc = "solution"]
       ELSE bt' = [bt EXCEPT !.pc = "try",
                             !.stack = Append(@, [var |-> select_variable(bt.policy),
                                                  vals |-> cur_domain(V[select_variable(bt.policy)]),
                                                  prunings |-> <<>>,
                                                  entry |-> V])]
    /\ UNCHANGED <<V, C, csp, call, hist>>

\* step 3a: the next value of the selected variable's current domain is
\* assigned, and the propagator is invoked
BtAssign ==
    /\ bt.pc = "try"
    /\ top.vals # <<>>
    /\ V' = [V EXCEPT ![top.var] = assign(@, Head(top.vals)).self]
    /\ bt' = [bt EXCEPT !.pc = "propagate", !.p = NoProp,
                        !.stack[Len(bt.stack)].vals = Tail(@)]
    /\ UNCHANGED <<C, csp, call, hist>>

\* step 4: every value has been tried and failed; the call returns failure,
\* to the trial of its caller or, at the root, as Unsatisfiable
BtFail ==
    /\ bt.pc = "try"
    /\ top.vals = <<>>
    /\ bt' = [bt EXCEPT !.pc = IF Len(bt.stack) = 1 THEN "unsat" ELSE "undo",
                        !.stack = SubSeq(@, 1, Len(@) - 1)]
    /\ UNCHANGED <<V, C, csp, call, hist>>

\* step 3b: the propagator is entered.  None returns success at once;
\* forward checking goes through the constraints of the CSP; GAC seeds its
\* queue with the variable just assigned
PropStart ==
    /\ bt.pc = "propagate"
    /\ ~bt.p.started
    /\ LET p0 == [NoProp EXCEPT !.started = TRUE, !.entry = V]
       IN  IF bt.prop = "none" THEN prop_return(p0, TRUE)
           ELSE IF bt.prop = "fc"
           THEN prop_goto(next_item("fc", [p0 EXCEPT !.cons = get_all_cons(csp)]))
           ELSE prop_goto(next_item("gac", [p0 EXCEPT !.queue = <<top.var>>]))
    /\ UNCHANGED <<V, C, csp, call, hist>>

\* the propagator looks at the next value of u: a value without support in
\* c is pruned and reported
PropPrune ==
    /\ bt.pc = "propagate"
    /\ bt.p.started
    /\ bt.p.vals # <<>>
    /\ LET val == Head(bt.p.vals)
           r == has_support(C[bt.p.c], bt.p.u, val)
       IN  IF r.outcome # "ok"
           THEN /\ bt' = [bt EXCEPT !.pc = r.outcome]
                /\ V' = V
           ELSE IF r.value
           THEN /\ bt' = [bt EXCEPT !.p.vals = Tail(@)]
                /\ V' = V
           ELSE /\ bt' = [bt EXCEPT !.p.vals = Tail(@),
                                    !.p.removed = TRUE,
                                    !.p.prunings = Append(@, <<bt.p.u, val>>)]
                /\ V' = [V EXCEPT ![bt.p.u] = prune_value(@, val).self]
    /\ UNCHANGED <<C, csp, call, hist>>

\* the propagator is through with the values of u: it returns failure when
\* the current domain of u is empty; else GAC puts u in its queue if a value
\* was removed, and the propagator goes on, or returns success
PropAdvance ==
    /\ bt.pc = "propagate"
    /\ bt.p.started
    /\ bt.p.vals = <<>>
    /\ IF cur_domain_size(V[bt.p.u]) = 0
       THEN prop_return(bt.p, FALSE)
       ELSE IF bt.prop = "gac" /\ bt.p.removed /\ bt.p.u \notin Range(bt.p.queue)
       THEN prop_goto(next_item(bt.prop, [bt.p EXCEPT !.queue = Append(@, bt.p.u)]))
       ELSE prop_goto(next_item(bt.prop, bt.p))
    /\ UNCHANGED <<V, C, csp, call, hist>>

\* steps 3c, 3d: the driver takes the propagator's result: on success it
\* recurses, on failure it undoes the trial
BtPropagated ==
    /\ bt.pc = "propagated"
    /\ bt' = [bt EXCEPT !.pc = IF bt.p.ok THEN "call" ELSE "undo",
                        !.stack[Len(bt.stack)].prunings = bt.p.prunings]
    /\ UNCHANGED <<V, C, csp, call, hist>>

\* steps 3c, 3d: the trial failed (its propagator call or its recursive
\* call): the variable is unassigned and the pairs reported are restored
BtUndo ==
    /\ bt.pc = "undo"
    /\ V' = unprune_all([V EXCEPT ![top.var] = unassign(@).self], top.prunings, 1)
    /\ bt' = [bt EXCEPT !.pc = "try", !.stack[Len(bt.stack)].prunings = <<>>]
    /\ UNCHANGED <<C, csp, call, hist>>

NextSearch ==
    \/ Solve
    \/ BtCall
    \/ BtAssign
    \/ BtFail
    \/ PropStart
    \/ PropPrune
    \/ PropAdvance
    \/ BtPropagated
    \/ BtUndo

SpecSearch == InitSearch /\ [][NextSearch]_vars

\* the tables of the instances whose runs are followed to their end: the
\* empty table, one tuple, not-equal, and every tuple
TermTables ==
    {{}, {<<1, 1>>}, NotEqual(<<1, 2>>), TuplesOver(<<1, 2>>, 2),
     NotEqual(<<1, 2, 3>>)}

\* the instances with these tables
TermInstances ==
    {inst \in Instances :
        inst.txy \in TermTables /\ inst.tyz \in TermTables /\ inst.txz \in TermTables}

InitSearchFair == \E inst \in TermInstances : BuildInstance(inst)

\* the search as the interpreter runs it: single-threaded and synchronous,
\* with no blocking operation, so a step that can be taken is taken
SpecSearchFair == InitSearchFair /\ [][NextSearch]_vars /\ WF_vars(NextSearch)

----------------------------------------------------------------------------
(* Properties of the Variable specification *)

\* the object x before and after a step
x0 == V["x"]
x1 == V'["x"]

\* the domain values whose flag is set, in domain order
MaskedValues(self) ==
    LET keep == {i \in 1..Len(self.dom) : self.curdom[i]}
        nth(k) == CHOOSE i \in keep : Cardinality({j \in keep : j < i}) = k - 1
    IN  [k \in 1..Cardinality(keep) |-> self.dom[nth(k)]]

C2_AssignThenAssigned ==
    [][/\ (/\ call'.op = "assign"
           /\ ~is_assigned(x0)
           /\ call'.arg \in Range(cur_domain(x0)))
          => (/\ is_assigned(x1)
              /\ get_assigned_value(x1) = call'.arg
              /\ cur_domain(x1) = <<call'.arg>>
              /\ cur_domain_size(x1) = 1)
       /\ (/\ call'.op \in {"prune_value", "unprune_value", "restore_curdom"}
           /\ is_assigned(x0))
          => (/\ is_assigned(x1)
              /\ get_assigned_value(x1) = get_assigned_value(x0)
              /\ cur_domain(x1) = <<get_assigned_value(x0)>>
              /\ cur_domain_size(x1) = 1)]_vars

\* C3: assign on an assigned Variable or with a value outside the current
\* domain, and unassign on an unassigned Variable, end in an error the caller
\* observes (an exception), with the object unchanged.
C3_RejectedCallRaises ==
    [][(\/ /\ call'.op = "assign"
           /\ (is_assigned(x0) \/ ~in_cur_domain(x0, call'.arg))
        \/ /\ call'.op = "unassign"
           /\ ~is_assigned(x0))
       => (call'.outcome \in Raised /\ x1 = x0)]_vars

\* C4: prune_value(v) and unprune_value(v) raise an error and change nothing
\* when v is not in the permanent domain; otherwise they set one flag, at an
\* index holding v, to FALSE (prune) or TRUE (unprune) and change nothing else.
C4_PruneUnprune ==
    [][call'.op \in {"prune_value", "unprune_value"} =>
          IF call'.arg \notin Range(x0.dom)
          THEN call'.outcome \in Raised /\ x1 = x0
          ELSE /\ call'.outcome = "ok"
               /\ x1.dom = x0.dom
               /\ x1.assignedValue = x0.assignedValue
               /\ DOMAIN x1.curdom = DOMAIN x0.curdom
               /\ \E i \in 1..Len(x0.dom) :
                     /\ x0.dom[i] = call'.arg
                     /\ x1.curdom[i] = (call'.op = "unprune_value")
                     /\ \A j \in 1..Len(x0.dom) :
                           j # i => x1.curdom[j] = x0.curdom[j]]_vars

\* C4 witness: prune_value of a value that is not in the domain has raised,
\* on a Variable that has values and pruned ones among them
C4_Witness ==
    /\ call.op = "prune_value" /\ call.outcome = "ValueError"
    /\ \E i \in 1..Len(V["x"].dom) : ~V["x"].curdom[i]

\* C5: in_cur_domain(v) is true exactly when v is an element of cur_domain()
C5_InCurDomainMirrorsCurDomain ==
    \A v \in Values :
        in_cur_domain(V["x"], v) <=> (v \in Range(cur_domain(V["x"])))

----------------------------------------------------------------------------
(* Properties of the Constraint specification *)

\* value sequences aligned to the scope of c
Aligned == [1..Len(C["c"].scope) -> TupleValues]

BruteForceSupport(self, x, v) ==
    \E t \in self.sat_tuples :
        /\ \E i \in 1..Len(self.scope) :
              i <= Len(t) /\ self.scope[i] = x /\ t[i] = v
        /\ \A j \in 1..Len(self.scope) :
              j <= Len(t) /\ t[j] \in Range(cur_domain(V[self.scope[j]]))

\* C7: has_support(x, v) returns what the brute-force scan of the whole
\* table gives, for every scope variable x and value v
C7_HasSupportIsBruteForce ==
    \A x \in Range(C["c"].scope), v \in TupleValues :
        has_support(C["c"], x, v) =
            [outcome |-> "ok", value |-> BruteForceSupport(C["c"], x, v)]

\* C8: add_satisfying_tuples given a tuple of a length other than the scope's
\* raises an error and leaves the table and the support index unchanged, and
\* every stored tuple has the scope's length
C8_ArityMismatchRejected ==
    [][call'.op = "add_satisfying_tuples" =>
          /\ call'.mismatch => (call'.outcome \in Raised /\ C' = C)
          /\ \A t \in C'["c"].sat_tuples : Len(t) = Len(C'["c"].scope)]_vars

\* what check and has_support return, for every tuple and every scope
\* variable and value
Results(self) ==
    [check |-> [t \in AllTuples |-> check(self, t)],
     has_support |-> [k \in Range(self.scope) \X TupleValues |->
                         has_support(self, k[1], k[2])]]

\* C9: a call of add_satisfying_tuples all of whose tuples are in the table
\* already leaves what check and has_support return unchanged; and after any
\* call, whatever the flags and assignments of x and y, adding a tuple of the
\* table once more would leave them unchanged, and adding a new tuple twice
\* in one call would give what adding it once gives
C9_AddAgainKeepsResults ==
    /\ [][(call'.op = "add_satisfying_tuples" /\ call'.again) =>
             Results(C["c"])' = Results(C["c"])]_vars
    /\ [](call.op = "add_satisfying_tuples" =>
             \A t \in AllTuples :
                LET once == add_satisfying_tuples(C["c"], <<t>>).self
                    twice == add_satisfying_tuples(C["c"], <<t, t>>).self
                IN  IF t \in C["c"].sat_tuples
                    THEN Results(once) = Results(C["c"])
                    ELSE Results(twice) = Results(once))

\* C9 witness: a tuple has been added a second time, and supports a value
\* while another value of that variable has no support
C9_Witness ==
    /\ call.op = "add_satisfying_tuples" /\ call.again /\ call.outcome = "ok"
    /\ \E x \in Range(C["c"].scope), v, w \in TupleValues :
          /\ has_support(C["c"], x, v) = [outcome |-> "ok", value |-> TRUE]
          /\ has_support(C["c"], x, w) = [outcome |-> "ok", value |-> FALSE]
    /\ \E i \in 1..2 : ~V["y"].curdom[i]

----------------------------------------------------------------------------
(* Properties of the CSP specification *)

\* C10: add_constraint(c) with a Constraint c whose scope holds a variable
\* that is not registered ends in an error the caller observes (an
\* exception) and leaves the constraint list unchanged
C10_UnknownVariableRejected ==
    [][(/\ call'.op = "add_constraint"
        /\ IsConstraint(call'.arg)
        /\ \E i \in 1..Len(C[call'.arg].scope) :
              ~Registered(csp, C[call'.arg].scope[i]))
       => (/\ call'.outcome \in Raised
           /\ get_all_cons(csp') = get_all_cons(csp))]_vars

\* a sequence holds no element twice
NoDuplicates(s) == \A i, j \in 1..Len(s) : s[i] = s[j] => i = j

----------------------------------------------------------------------------
(* More properties of the Variable specification *)

\* C16: after restore_curdom() on a Variable that is not assigned, whatever
\* was pruned or added before, cur_domain_size() equals domain_size() and
\* cur_domain() is the permanent domain, in order
C16_RestoreCurdomIsFullDomain ==
    [][(call'.op = "restore_curdom" /\ ~is_assigned(x1))
       => (/\ cur_domain_size(x1) = domain_size(x1)
           /\ cur_domain(x1) = x1.dom)]_vars

\* C16 witness: restore_curdom() has been called on an unassigned Variable
\* of several values, after which every flag is set
C16_Witness ==
    /\ call.op = "restore_curdom" /\ call.outcome = "ok"
    /\ ~is_assigned(x0)
    /\ domain_size(x0) = MaxDomLen
    /\ cur_domain_size(x0) = MaxDomLen

----------------------------------------------------------------------------
(* More properties of the CSP and Constraint specifications *)

\* C17: in every state of a CSP, after accepted and rejected calls alike,
\* get_cons_with_var(v) of a registered variable v holds exactly the
\* constraints of get_all_cons() whose scope contains v
C17_IndexMatchesConstraintList ==
    \A v \in Range(get_all_vars(csp)) :
        Range(get_cons_with_var(csp, v))
          = {c \in Range(get_all_cons(csp)) : v \in Range(get_scope(C[c]))}

\* C18: add_satisfying_tuples with tuples that are all in the table already
\* changes neither the table nor any support list, and a support list of
\* (var, val) holds a tuple of the table once for each scope position of var
\* at which the tuple has val
C18_AddAgainKeepsState ==
    /\ [][(call'.op = "add_satisfying_tuples" /\ call'.again)
           => (/\ C'["c"].sat_tuples = C["c"].sat_tuples
               /\ C'["c"].sup_tuples = C["c"].sup_tuples)]_vars
    /\ [](call.op = "add_satisfying_tuples" =>
            \A key \in DOMAIN C["c"].sup_tuples : \A t \in C["c"].sat_tuples :
               Cardinality({k \in 1..Len(C["c"].sup_tuples[key]) :
                               C["c"].sup_tuples[key][k] = t})
                 <= Cardinality({i \in 1..Len(get_scope(C["c"])) :
                                   /\ i <= Len(t)
                                   /\ get_scope(C["c"])[i] = key[1]
                                   /\ t[i] = key[2]}))

----------------------------------------------------------------------------
(* Properties of the search specification *)

\* the values assigned to the scope of constraint c, in scope order
assigned_values(c) ==
    [i \in 1..Len(get_scope(C[c])) |-> get_assigned_value(V[get_scope(C[c])[i]])]

\* the complete assignments of the CSP's variables, each to a value of its
\* permanent domain, that satisfy every constraint of the CSP
Solutions ==
    {s \in [Range(get_all_vars(csp)) -> UNION {Range(V[v].dom) : v \in DOMAIN V}] :
        /\ \A v \in Range(get_all_vars(csp)) : s[v] \in Range(V[v].dom)
        /\ \A c \in Range(get_all_cons(csp)) :
              check(C[c], [i \in 1..Len(get_scope(C[c])) |-> s[get_scope(C[c])[i]]])}

\* C12: what solve returns as a Solution, under each propagator variant,
\* assigns every variable of the CSP and satisfies every constraint of the
\* CSP (check is true on the values assigned to its scope)
C12_SolutionSatisfiesConstraints ==
    bt.pc = "solution" =>
        /\ \A v \in Range(get_all_vars(csp)) : is_assigned(V[v])
        /\ \A c \in Range(get_all_cons(csp)) : check(C[c], assigned_values(c))

\* C13: solve returns Unsatisfiable only when the CSP has no solution, and
\* during the search every solution that agrees with the values assigned so
\* far has, for each unassigned variable, its value still in that variable's
\* current domain
C13_UnsatisfiableOnlyWithoutSolution ==
    /\ bt.pc = "unsat" => Solutions = {}
    /\ bt.pc \in {"call", "try", "propagate", "propagated", "undo"} =>
          \A s \in Solutions :
             (\A v \in Range(get_all_vars(csp)) :
                 is_assigned(V[v]) => get_assigned_value(V[v]) = s[v])
             => \A v \in Range(get_all_vars(csp)) :
                   ~is_assigned(V[v]) => in_cur_domain(V[v], s[v])

\* the CSP solved is that of scenario 1 (x, y over [1, 2, 3], not-equal), or
\* that of scenario 2 (the same and the unary constraint x in {3})
Scenario1 ==
    /\ V["x"].dom = <<1, 2, 3>> /\ get_all_vars(csp) = <<"x", "y">>
    /\ get_all_cons(csp) = <<"cxy">>
Scenario2 ==
    /\ V["x"].dom = <<1, 2, 3>> /\ get_all_vars(csp) = <<"x", "y">>
    /\ get_all_cons(csp) = <<"cxy", "cx">>

\* C14: under the default ordering policy solve returns a solution, the
\* first one in depth-first order: in scenario 1 under plain backtracking
\* x = 1, y = 2; in scenario 2 under forward checking x = 3, y = 1, and the
\* current domain of y is [1, 2] when the first value of y is tried
C14_FirstSolutionInOrder ==
    bt.policy = "mrv" =>
        /\ bt.pc = "solution" =>
              [v \in Range(get_all_vars(csp)) |-> get_assigned_value(V[v])]
                 \in Solutions
        /\ (Scenario1 /\ bt.prop = "none" /\ bt.pc = "solution") =>
              /\ get_assigned_value(V["x"]) = 1
              /\ get_assigned_value(V["y"]) = 2
        /\ (Scenario2 /\ bt.prop = "fc" /\ bt.pc = "solution") =>
              /\ get_assigned_value(V["x"]) = 3
              /\ get_assigned_value(V["y"]) = 1
        /\ (Scenario2 /\ bt.prop = "fc" /\ bt.pc = "try" /\ top.var = "y") =>
              cur_domain(V["y"]) = <<1, 2>>

\* C15: when a propagator call, of any variant, returns success, no
\* variable of the CSP has an empty current domain
C15_SuccessWithoutEmptyDomain ==
    (bt.pc = "propagated" /\ bt.p.ok) =>
        \A v \in Range(get_all_vars(csp)) : cur_domain(V[v]) # <<>>

C20_PruningsAreExact ==
    bt.pc = "propagated" =>
        LET P == bt.p.prunings
            E == bt.p.entry
        IN  /\ \A i, j \in 1..Len(P) : P[i] = P[j] => i = j
            /\ \A i \in 1..Len(P) : in_cur_domain(E[P[i][1]], P[i][2])
            /\ \A v \in DOMAIN V :
                  /\ V[v].dom = E[v].dom
                  /\ V[v].assignedValue = E[v].assignedValue
                  /\ \A k \in 1..Len(V[v].dom) :
                        /\ V[v].curdom[k] => E[v].curdom[k]
                        /\ (E[v].curdom[k] /\ ~V[v].curdom[k])
                             <=> (/\ <<v, V[v].dom[k]>> \in Range(P)
                                  /\ value_index(V[v], V[v].dom[k]) = k)

\* the constraints of the CSP a GAC call is answerable for: those whose
\* scope holds the variable just assigned or a variable the call pruned
touched_cons ==
    {c \in Range(get_all_cons(csp)) :
        \E v \in Range(get_scope(C[c])) :
            \/ v = top.var
            \/ \E i \in 1..Len(bt.p.prunings) : bt.p.prunings[i][1] = v}

\* C21: when a GAC call returns success its queue is empty and, in every
\* constraint whose scope holds the variable just assigned or a variable
\* pruned by the call, every value of the current domain of every unassigned
\* scope variable has has_support true; when it returns failure the current
\* domain of some variable is empty
C21_GacFixpoint ==
    (bt.pc = "propagated" /\ bt.prop = "gac") =>
        /\ bt.p.ok =>
              /\ bt.p.queue = <<>>
              /\ \A c \in touched_cons :
                    \A u \in Range(get_unasgn_vars(C[c])) :
                       \A val \in Range(cur_domain(V[u])) :
                          LET r == has_support(C[c], u, val)
                          IN  r.outcome = "ok" /\ r.value
        /\ ~bt.p.ok =>
              \E v \in Range(get_all_vars(csp)) : cur_domain(V[v]) = <<>>

\* the constraints of the CSP with exactly one unassigned scope variable
one_unassigned == {c \in Range(get_all_cons(csp)) : get_n_unasgn(C[c]) = 1}

\* the unassigned variable of such a constraint
the_unassigned(c) == get_unasgn_vars(C[c])[1]

\* tuple t has val at the positions of u and, at every other position, the
\* value assigned to the scope variable of that position
agrees(c, u, val, t) ==
    /\ Len(t) = Len(get_scope(C[c]))
    /\ \A i \in 1..Len(t) :
          IF get_scope(C[c])[i] = u THEN t[i] = val
          ELSE t[i] = get_assigned_value(V[get_scope(C[c])[i]])

\* the values of u's current domain at the entry of the propagator call for
\* which some satisfying tuple of c agrees with the assigned values
supported_at_entry(c, u) ==
    {val \in Range(cur_domain(bt.p.entry[u])) :
        \E t \in C[c].sat_tuples : agrees(c, u, val, t)}

\* C22: when a forward checking call returns success, for every constraint
\* of the CSP with exactly one unassigned scope variable u the values of u's
\* current domain are exactly the values of its current domain at the entry
\* of the call for which some satisfying tuple agrees with the values
\* assigned to the other scope variables; and the call returns failure if
\* and only if the current domain of some such u is empty
C22_ForwardCheckingExact ==
    (bt.pc = "propagated" /\ bt.prop = "fc") =>
        /\ bt.p.ok =>
              \A c \in one_unassigned :
                 Range(cur_domain(V[the_unassigned(c)]))
                   = supported_at_entry(c, the_unassigned(c))
        /\ ~bt.p.ok <=>
              \E c \in one_unassigned : cur_domain(V[the_unassigned(c)]) = <<>>

\* C23: under each propagator variant solve eventually returns a Solution
\* or Unsatisfiable, the recursion is never deeper than the number of
\* variables of the CSP, and every GAC call that is entered returns, with
\* its queue empty or with the current domain of some variable empty
C23_SolveTerminates ==
    /\ <>(bt.pc \in {"solution", "unsat"})
    /\ [](Len(bt.stack) <= Len(get_all_vars(csp)))
    /\ (bt.pc = "propagate" /\ bt.prop = "gac")
          ~> (/\ bt.pc = "propagated"
              /\ \/ bt.p.queue = <<>>
                 \/ \E v \in Range(get_all_vars(csp)) : cur_domain(V[v]) = <<>>)

====
